---- MODULE Spec2Model ----
(***************************************************************************)
(* The rate-limited osu! API client (OsuHttpClient in src/osu_http.py; the *)
(* same code is repeated as OsuApi in src/osu_api.py): one asyncio event   *)
(* loop, callers of get/post, the lazily started queue worker, the token   *)
(* refresh, the retry loop and aclose.                                     *)
(*                                                                         *)
(* Time is counted in ticks of 0.5 s, the greatest common unit of the      *)
(* code's delays (0.5 s, 1.0 s, 2.0 s, 30 s).  The code reads time.time()  *)
(* only to compare a difference of two instants with a constant, so each   *)
(* instant it stores is kept as its distance from now, and a distance      *)
(* stops counting once it is past every constant it is compared with:      *)
(* time.time() - last_call at the floor interval, and the validity left to *)
(* a token, when it starts above the safety margin, at the margin (a token *)
(* issued inside the margin is counted down to its expiry).                *)
(* A step of the model is one run of a coroutine between two suspension    *)
(* points (an await that really suspends): the event loop is single        *)
(* threaded, so such a run is atomic.                                      *)
(*                                                                         *)
(* Seven specifications share the variables: Spec, the client; ApiSpec,    *)
(* one call of a domain operation (get_user, get_user_best,                *)
(* get_user_recent of OsuApi, resolve_user of OsuClient in src/bot.py);    *)
(* ComputeSpec, one call of a function of src/compute.py; PlaysSpec,       *)
(* MonthSpec and TopStatsSpec, the methods of Storage (src/storage.py) on  *)
(* table plays (MonthSpec with calendar timestamps, for plays_in_month)    *)
(* and on table topstats, each method one transaction; and BotSpec, the    *)
(* daily batch of the bot (fetch_last_24h_for_all in src/bot.py).  Each    *)
(* leaves the variables of the others at their initial values.             *)
(***************************************************************************)
EXTENDS Integers, Sequences, FiniteSets

\* ---------------------------------------------------------------- bounds
\* Number of get/post calls made on the client.  The calls are numbered in
\* the order they are made.
NumCalls == 2
\* The largest `limit` get_user_best and get_user_recent are called with.
MaxLimit == 101

\* ------------------------------------------------------ program constants
\* `wait = 1.0 - (time.time() - last_call)`: the floor interval, 1.0 s.
FLOOR == 2
\* `time.time() < self._token_exp - 30`: the expiry safety margin, 30 s.
TOKEN_MARGIN == 60
\* A mutation of Backoff: the first two delays are swapped.
BackoffSwapped == <<2, 1, 4>>
\* `for t in (0.5, 1.0, 2.0)`: the backoff schedule.
Backoff == <<1, 2, 4>>
\* Values of int(data["expires_in"]) the token endpoint may answer with:
\* 1 s (inside the margin at once) and 31 s (outside the margin for 1 s).
ExpiresIn == {2, 62}

\* `per_page = min(50, remaining)`: the page size of get_user_best.
PAGE == 50
\* The user ids and names the service knows, and those a caller may ask for.
KnownUsers == {1}
AskedUsers == {1, 2}
\* The mod sets of the plays the service returns, in the order they recur
\* in a page: none, the scoring-neutral mod alone, and two sets that change
\* the difficulty.
ModCycle == <<{}, {"neutral"}, {"DT"}, {"neutral", "HR"}>>

Calls == 1..NumCalls
\* A worker task is only ever created inside a get/post call, at most one
\* per call, so NumCalls task objects suffice.
Tasks == 1..NumCalls
\* The value of `self._token` / `self._worker_task` / a job slot when None.
None == 0

VARIABLES
    queue,          \* self._queue: sequence of call ids (the jobwrap of each)
    tasks,          \* the worker task objects ever created, by id
    worker_task,    \* self._worker_task: None or a task id
    client_closed,  \* self._client has been closed
    aclose_pc,      \* position of the aclose() coroutine
    aclose_task,    \* the task aclose() awaits
    token,          \* self._token: None or the id of the exchange that set it
    token_ttl,      \* self._token_exp - time.time() (see TokenAfterTick)
    pc,             \* position of each get/post call
    headers,        \* the token captured in the call's Authorization header
    fut,            \* the call's completion future
    result_holder,  \* the call's result_holder["data"]
    ret,            \* what the call returned to its caller
    job_state,      \* life of the call's job
    attempts,       \* network attempts made for the call's request
    failures,       \* attempts that ended in httpx.HTTPError
    sleeps,         \* the backoff sleeps asyncio.sleep was called with
    enq,            \* the calls in the order they were put on the queue
    since_start,    \* time since the most recent job started executing
    since_request,  \* time since the most recent API request was sent
    \* ---- one call of a domain operation (OsuApi, OsuClient)
    api_fn,         \* the operation called ("none" before the call)
    api_pc,         \* "idle" | "await" (a request is out) | "done" | "raised"
    identifier,     \* get_user / resolve_user: the identifier asked for
    limit,          \* get_user_best / get_user_recent: the limit argument
    remaining,      \* get_user_best: remaining
    cursor,         \* get_user_best: cursor (None is 0)
    per_page,       \* get_user_best: per_page of the request that is out
    scores,         \* get_user_best: scores
    api_attempts,   \* attempts _get has made for the request that is out
    requests,       \* the params of the page requests made so far
    pages,          \* what _get returned for each page request so far
    api_status,     \* how the service answered last: "none", "ok", "404", "error"
    api_ret,        \* what the operation returned
    \* ---- one call of a function of compute.py
    c_fn,           \* "none", "compute_TS" or "compute_push_value"
    c_pc,           \* "idle" | "called" | "returned"
    c_in,           \* the arguments (see PushInputs, TSInputs)
    c_case,         \* compute_push_value: which `return` was taken, 1..8
    c_out,          \* the value returned
    \* ---- the database behind Storage (src/storage.py)
    plays,          \* the rows of table plays
    topstats,       \* the rows of table topstats
    first_topstats, \* for each (user, month) written, the first row written
    st_op,          \* the Storage method called last, with its arguments
    st_ret,         \* what it returned
    \* ---- the daily batch of the bot (src/bot.py)
    b_pc,           \* "idle", "fetching", "done" or "raised"
    b_i,            \* index of the player whose scores are being fetched
    b_scores,       \* the rows of the bot's table scores
    b_visited       \* the players whose iteration of the loop has begun

httpVars == <<queue, tasks, worker_task, client_closed, aclose_pc,
              aclose_task, token, token_ttl, pc, headers, fut, result_holder,
              ret, job_state, attempts, failures, sleeps, enq, since_start,
              since_request>>
apiVars == <<api_fn, api_pc, identifier, limit, remaining, cursor, per_page,
             scores, api_attempts, requests, pages, api_status, api_ret>>
computeVars == <<c_fn, c_pc, c_in, c_case, c_out>>
storageVars == <<plays, topstats, first_topstats, st_op, st_ret>>
botVars == <<b_pc, b_i, b_scores, b_visited>>
nonHttpVars == <<apiVars, computeVars, storageVars, botVars>>
nonApiVars == <<httpVars, computeVars, storageVars, botVars>>
nonComputeVars == <<httpVars, apiVars, storageVars, botVars>>
nonStorageVars == <<httpVars, apiVars, computeVars, botVars>>
nonBotVars == <<httpVars, apiVars, computeVars, storageVars>>
vars == <<httpVars, nonHttpVars>>

callVars == <<pc, headers, fut, result_holder, ret>>
jobVars == <<job_state, attempts, failures, sleeps>>
tokenVars == <<token, token_ttl>>
closeVars == <<client_closed, aclose_pc, aclose_task>>

Min(a, b) == IF a < b THEN a ELSE b
Max(a, b) == IF a > b THEN a ELSE b

\* A task object that was not created yet, and one that has ended.
\* st: "unborn" | "live" | "raised" | "cancelled"; pc: where a live worker
\* is suspended ("get": queue.get(), "sleep": the floor sleep, "request": a
\* network call of the job, "backoff": a backoff sleep of the job);
\* since_call: time.time() - last_call, counted up to FLOOR; timer: what is
\* left of the asyncio.sleep the worker is in.
Unborn == [st |-> "unborn", pc |-> "-", job |-> None, since_call |-> 0,
           timer |-> 0, cancel |-> FALSE]
Ended(how) == [st |-> how, pc |-> "-", job |-> None, since_call |-> 0,
               timer |-> 0, cancel |-> FALSE]
\* `_queue_worker` up to its first suspension: `last_call = 0.0` (the epoch,
\* more than the floor interval ago), then `await self._queue.get()`.
Fresh == [st |-> "live", pc |-> "get", job |-> None, since_call |-> FLOOR,
          timer |-> 0, cancel |-> FALSE]

\* Values of result_holder.get("data"): the key is absent, the decoded JSON
\* body answering call c's request, or the None stored after the retries.
Unset == [kind |-> "unset", of |-> None]
Json(c) == [kind |-> "json", of |-> c]
Null == [kind |-> "null", of |-> None]

\* asyncio.Task.done()
TaskDone(w) == tasks[w].st \in {"raised", "cancelled"}

\* What a domain operation hands back: None, a user profile or a list of
\* plays.
NoData == [kind |-> "null", user |-> 0, list |-> <<>>]
UserData(u) == [kind |-> "user", user |-> u, list |-> <<>>]
ListData(l) == [kind |-> "list", user |-> 0, list |-> l]

\* No domain operation was called yet.
ApiInit ==
    /\ api_fn = "none"
    /\ api_pc = "idle"
    /\ identifier = [kind |-> "none", val |-> 0]
    /\ limit = 0
    /\ remaining = 0
    /\ cursor = 0
    /\ per_page = 0
    /\ scores = <<>>
    /\ api_attempts = 0
    /\ requests = <<>>
    /\ pages = <<>>
    /\ api_status = "none"
    /\ api_ret = NoData

\* The arguments of a call: those of compute_push_value (PushInputs) and
\* those of compute_TS.
Args(pp, SR, TS, acc, len, Top50, avg, miss) ==
    [pp |-> pp, SR |-> SR, TS |-> TS, accuracy_percent |-> acc,
     map_length_seconds |-> len, top50_pp_threshold |-> Top50,
     top10_avg_star_raw |-> avg, top10_miss_sum |-> miss]
NoArgs == Args(0, 0, 0, 0, 0, 0, 0, 0)

\* No function of compute.py was called.
ComputeIdle ==
    /\ c_fn = "none"
    /\ c_pc = "idle"
    /\ c_in = NoArgs
    /\ c_case = 0
    /\ c_out = 0

\* The client after construction.
HttpInit ==
    /\ queue = <<>>
    /\ tasks = [w \in Tasks |-> Unborn]
    /\ worker_task = None
    /\ client_closed = FALSE
    /\ aclose_pc = "idle"
    /\ aclose_task = None
    /\ token = None
    /\ token_ttl = 0
    /\ pc = [c \in Calls |-> "idle"]
    /\ headers = [c \in Calls |-> None]
    /\ fut = [c \in Calls |-> "none"]
    /\ result_holder = [c \in Calls |-> Unset]
    /\ ret = [c \in Calls |-> Unset]
    /\ job_state = [c \in Calls |-> "none"]
    /\ attempts = [c \in Calls |-> 0]
    /\ failures = [c \in Calls |-> 0]
    /\ sleeps = [c \in Calls |-> <<>>]
    /\ enq = <<>>
    /\ since_start = FLOOR
    /\ since_request = FLOOR

\* A Storage method call (the method and its arguments) and its result: a
\* flag (insert_play_if_new), a number (cumulative_push) or rows.
NoArg == [user_id |-> 0]
Op(fn, arg) == [fn |-> fn, arg |-> arg]
Ret(flag, num, rows) == [flag |-> flag, num |-> num, rows |-> rows]

\* The database after Base.metadata.create_all on an empty file.
StorageInit ==
    /\ plays = {}
    /\ topstats = {}
    /\ first_topstats = {}
    /\ st_op = Op("none", NoArg)
    /\ st_ret = Ret(FALSE, 0, {})

\* The bot before its daily task has run: table scores is empty.
BotInit ==
    /\ b_pc = "idle"
    /\ b_i = 0
    /\ b_scores = {}
    /\ b_visited = {}

Init == HttpInit /\ ApiInit /\ ComputeIdle /\ StorageInit /\ BotInit

\* ------------------------------------------------------------ the caller

\* Two mutations of NeedWorker: the start check is dropped; the done()
\* test is inverted.
NeedWorkerAlways == TRUE
NeedWorkerInverted == worker_task = None \/ ~TaskDone(worker_task)
\* `if self._worker_task is None or self._worker_task.done()`
NeedWorker == worker_task = None \/ TaskDone(worker_task)

\* The task object loop.create_task returns: the first one not yet used.
NewTask == CHOOSE w \in Tasks : tasks[w].st = "unborn" /\
                                \A v \in Tasks : v < w => tasks[v].st # "unborn"

\* _ensure_worker: it has no suspension point, so it runs as part of the
\* step that calls it.
EnsureWorker ==
    IF NeedWorker
    THEN /\ tasks' = [tasks EXCEPT ![NewTask] = Fresh]
         /\ worker_task' = NewTask
    ELSE UNCHANGED <<tasks, worker_task>>

\* A mutation of TokenFresh: the safety margin is forgotten.
TokenFreshNoMargin == token # None /\ 0 < token_ttl
\* `if self._token and time.time() < self._token_exp - 30: return`
TokenFresh == token # None /\ 0 < token_ttl - TOKEN_MARGIN

\* get/post after _ensure_token returned: the headers capture self._token
\* (tok), the future is created, jobwrap is put on the (unbounded) queue and
\* the call suspends on `await fut`.
Enqueue(c, tok) ==
    /\ headers' = [headers EXCEPT ![c] = tok]
    /\ fut' = [fut EXCEPT ![c] = "pending"]
    /\ queue' = Append(queue, c)
    /\ enq' = Append(enq, c)
    /\ job_state' = [job_state EXCEPT ![c] = "queued"]
    /\ pc' = [pc EXCEPT ![c] = "waiting"]

\* get/post is called: _ensure_worker, then _ensure_token's check.  With a
\* fresh token the call goes on to enqueue its job in the same step;
\* otherwise it suspends on the token endpoint's answer.
Call(c) ==
    /\ pc[c] = "idle"
    /\ \A d \in Calls : d < c => pc[d] # "idle"
    /\ EnsureWorker
    /\ IF TokenFresh
       THEN Enqueue(c, token)
       ELSE /\ pc' = [pc EXCEPT ![c] = "exchange"]
            /\ UNCHANGED <<headers, fut, queue, enq, job_state>>
    /\ UNCHANGED <<closeVars, tokenVars, result_holder, ret, attempts,
                   failures, sleeps, since_start, since_request>>
    /\ UNCHANGED nonHttpVars

\* The token endpoint answered with an error status, or the transport
\* failed, or the body is not JSON or has no access_token: _ensure_token
\* raises before it assigns anything, and get/post raises to its caller.
ExchangeFails(c) ==
    /\ pc[c] = "exchange"
    /\ pc' = [pc EXCEPT ![c] = "raised"]
    /\ UNCHANGED <<queue, tasks, worker_task, closeVars, tokenVars,
                   headers, fut, result_holder, ret, jobVars, enq,
                   since_start, since_request>>
    /\ UNCHANGED nonHttpVars

\* The token endpoint answered 200 with an access_token but no usable
\* expires_in: `self._token = data["access_token"]` is executed, then
\* `int(data["expires_in"])` raises.
ExchangeNoExpiry(c) ==
    /\ pc[c] = "exchange"
    /\ token' = c
    /\ pc' = [pc EXCEPT ![c] = "raised"]
    /\ UNCHANGED <<queue, tasks, worker_task, closeVars, token_ttl,
                   headers, fut, result_holder, ret, jobVars, enq,
                   since_start, since_request>>
    /\ UNCHANGED nonHttpVars

\* The token endpoint answered with a token valid for e ticks: the token
\* (named after the exchange, c) and its expiry are stored, and the call
\* goes on to enqueue its job.
ExchangeOk(c, e) ==
    /\ pc[c] = "exchange"
    /\ token' = c
    /\ token_ttl' = e
    /\ Enqueue(c, c)
    /\ UNCHANGED <<tasks, worker_task, closeVars, result_holder, ret,
                   attempts, failures, sleeps, since_start, since_request>>
    /\ UNCHANGED nonHttpVars

\* `await fut` resumes: the call returns result_holder.get("data").
Return(c) ==
    /\ pc[c] = "waiting"
    /\ fut[c] = "done"
    /\ pc' = [pc EXCEPT ![c] = "returned"]
    /\ ret' = [ret EXCEPT ![c] = IF result_holder[c].kind = "unset"
                                  THEN Null ELSE result_holder[c]]
    /\ UNCHANGED <<queue, tasks, worker_task, closeVars, tokenVars,
                   headers, fut, result_holder, jobVars, enq,
                   since_start, since_request>>
    /\ UNCHANGED nonHttpVars

\* The task running the call is cancelled while it awaits its future: the
\* future is cancelled with it; the job stays where it is.
CancelCall(c) ==
    /\ pc[c] = "waiting"
    /\ fut[c] = "pending"
    /\ pc' = [pc EXCEPT ![c] = "cancelled"]
    /\ fut' = [fut EXCEPT ![c] = "cancelled"]
    /\ UNCHANGED <<queue, tasks, worker_task, closeVars, tokenVars,
                   headers, result_holder, ret, jobVars, enq,
                   since_start, since_request>>
    /\ UNCHANGED nonHttpVars

\* ------------------------------------------------------------ the worker

\* A live worker the event loop may resume normally (no cancellation is
\* pending on it).
Runs(w) == tasks[w].st = "live" /\ ~tasks[w].cancel

\* The job raised: `await job()` raises in _queue_worker, whose `finally`
\* runs (last_call, task_done) and lets the exception end the worker task.
\* The job's future is left as it is.
JobRaises(w, c) ==
    /\ tasks' = [tasks EXCEPT ![w] = Ended("raised")]
    /\ job_state' = [job_state EXCEPT ![c] = "raised"]
    /\ UNCHANGED fut

\* `wait = 1.0 - (time.time() - last_call)`, since being
\* time.time() - last_call.
FloorWait(since) == FLOOR - since

\* do_request returned and jobwrap calls fut.set_result(True), which raises
\* InvalidStateError on a cancelled future.  Otherwise the worker's
\* `finally` sets last_call and the loop calls queue.get() again: on an
\* empty queue it suspends there; on a non-empty one get() returns without
\* suspending, wait is the whole floor interval and the worker suspends in
\* asyncio.sleep holding the next job.
JobReturns(w, c) ==
    IF fut[c] = "cancelled"
    THEN /\ JobRaises(w, c)
         /\ UNCHANGED queue
    ELSE /\ fut' = [fut EXCEPT ![c] = "done"]
         /\ job_state' = [job_state EXCEPT ![c] = "finished"]
         /\ IF queue = <<>>
            THEN /\ tasks' = [tasks EXCEPT ![w] =
                      [@ EXCEPT !.pc = "get", !.job = None, !.since_call = 0]]
                 /\ UNCHANGED queue
            ELSE /\ tasks' = [tasks EXCEPT ![w] =
                      [@ EXCEPT !.pc = "sleep", !.job = Head(queue),
                                !.since_call = 0, !.timer = FloorWait(0)]]
                 /\ queue' = Tail(queue)

\* `self._client.get(...)` / `.post(...)` is called for job c: a closed
\* httpx client raises RuntimeError, which is no httpx.HTTPError; an open
\* one sends the request and the job suspends on the answer.
SendRequest(w, c) ==
    IF client_closed
    THEN /\ JobRaises(w, c)
         /\ UNCHANGED <<attempts, since_request>>
    ELSE /\ tasks' = [tasks EXCEPT ![w] = [@ EXCEPT !.pc = "request", !.job = c]]
         /\ job_state' = [job_state EXCEPT ![c] = "running"]
         /\ attempts' = [attempts EXCEPT ![c] = @ + 1]
         /\ since_request' = 0
         /\ UNCHANGED fut

\* `await job()`: job c starts executing and makes its first attempt.
RunJob(w, c) ==
    /\ since_start' = 0
    /\ SendRequest(w, c)

\* queue.get() hands the worker the oldest job; the worker sleeps for the
\* rest of the floor interval, or starts the job at once.
WorkerGet(w) ==
    /\ Runs(w)
    /\ tasks[w].pc = "get"
    /\ queue # <<>>
    /\ queue' = Tail(queue)
    /\ IF FloorWait(tasks[w].since_call) > 0
       THEN /\ tasks' = [tasks EXCEPT ![w] =
                  [@ EXCEPT !.pc = "sleep", !.job = Head(queue),
                            !.timer = FloorWait(tasks[w].since_call)]]
            /\ UNCHANGED <<fut, jobVars, since_start, since_request>>
       ELSE /\ RunJob(w, Head(queue))
            /\ UNCHANGED <<failures, sleeps>>
    /\ UNCHANGED <<worker_task, closeVars, tokenVars, pc, headers,
                   result_holder, ret, enq>>
    /\ UNCHANGED nonHttpVars

\* `await asyncio.sleep(wait)` is over: the job starts.
WorkerWake(w) ==
    /\ Runs(w)
    /\ tasks[w].pc = "sleep"
    /\ tasks[w].timer = 0
    /\ RunJob(w, tasks[w].job)
    /\ UNCHANGED <<queue, worker_task, closeVars, tokenVars, pc, headers,
                   result_holder, ret, failures, sleeps, enq>>
    /\ UNCHANGED nonHttpVars

\* A mutation of ResponseOk: result_holder is one dict of the client, shared
\* by all calls, and not a local of each call.
ResponseOkShared(w) ==
    /\ Runs(w)
    /\ tasks[w].pc = "request"
    /\ result_holder' = [c \in Calls |-> Json(tasks[w].job)]
    /\ JobReturns(w, tasks[w].job)
    /\ UNCHANGED <<worker_task, closeVars, tokenVars, pc, headers,
                   ret, attempts, failures, sleeps, enq, since_start,
                   since_request>>
    /\ UNCHANGED nonHttpVars
\* The attempt was answered 2xx with a JSON body: the result is stored and
\* do_request returns (from the first attempt, or by `return` in the loop).
ResponseOk(w) ==
    /\ Runs(w)
    /\ tasks[w].pc = "request"
    /\ result_holder' = [result_holder EXCEPT ![tasks[w].job] = Json(tasks[w].job)]
    /\ JobReturns(w, tasks[w].job)
    /\ UNCHANGED <<worker_task, closeVars, tokenVars, pc, headers,
                   ret, attempts, failures, sleeps, enq, since_start,
                   since_request>>
    /\ UNCHANGED nonHttpVars

\* A mutation of AfterRetries: the last failure is raised instead of being
\* turned into None.
AfterRetriesRaise(w, c) ==
    /\ JobRaises(w, c)
    /\ UNCHANGED <<result_holder, queue>>
\* The `for` loop is exhausted: `result_holder["data"] = None`, and
\* do_request returns.
AfterRetries(w, c) ==
    /\ result_holder' = [result_holder EXCEPT ![c] = Null]
    /\ JobReturns(w, c)

\* The attempt failed with an httpx.HTTPError (transport error, timeout, or
\* an error status through raise_for_status): the next backoff sleep of the
\* schedule begins, or the schedule is exhausted.
ResponseHttpError(w) ==
    /\ Runs(w)
    /\ tasks[w].pc = "request"
    /\ failures' = [failures EXCEPT ![tasks[w].job] = @ + 1]
    /\ IF attempts[tasks[w].job] <= Len(Backoff)
       THEN /\ tasks' = [tasks EXCEPT ![w] =
                  [@ EXCEPT !.pc = "backoff",
                            !.timer = Backoff[attempts[tasks[w].job]]]]
            /\ sleeps' = [sleeps EXCEPT ![tasks[w].job] =
                            Append(@, Backoff[attempts[tasks[w].job]])]
            /\ UNCHANGED <<fut, job_state, result_holder, queue>>
       ELSE /\ AfterRetries(w, tasks[w].job)
            /\ UNCHANGED sleeps
    /\ UNCHANGED <<worker_task, closeVars, tokenVars, pc, headers,
                   ret, attempts, enq, since_start, since_request>>
    /\ UNCHANGED nonHttpVars

\* The attempt was answered 2xx with a body that is not JSON: r.json()
\* raises a ValueError, which no `except httpx.HTTPError` catches.
ResponseBadBody(w) ==
    /\ Runs(w)
    /\ tasks[w].pc = "request"
    /\ JobRaises(w, tasks[w].job)
    /\ UNCHANGED <<queue, worker_task, closeVars, tokenVars, pc, headers,
                   result_holder, ret, attempts, failures, sleeps, enq,
                   since_start, since_request>>
    /\ UNCHANGED nonHttpVars

\* `await asyncio.sleep(t)` of the retry loop is over: the next attempt.
BackoffWake(w) ==
    /\ Runs(w)
    /\ tasks[w].pc = "backoff"
    /\ tasks[w].timer = 0
    /\ SendRequest(w, tasks[w].job)
    /\ UNCHANGED <<queue, worker_task, closeVars, tokenVars, pc, headers,
                   result_holder, ret, failures, sleeps, enq, since_start>>
    /\ UNCHANGED nonHttpVars

\* ---------------------------------------------------------------- aclose

\* aclose(): a worker task that exists is cancelled and awaited; with none,
\* the `finally` closes the httpx client at once.
AcloseBegin ==
    /\ aclose_pc = "idle"
    /\ IF worker_task # None /\ ~TaskDone(worker_task)
       THEN /\ tasks' = [tasks EXCEPT ![worker_task] = [@ EXCEPT !.cancel = TRUE]]
            /\ aclose_pc' = "await"
            /\ aclose_task' = worker_task
            /\ UNCHANGED client_closed
       ELSE \* no task, or `await` of a task that is done returns/raises at once
            /\ client_closed' = TRUE
            /\ aclose_pc' = IF worker_task # None /\ tasks[worker_task].st = "raised"
                            THEN "raised" ELSE "done"
            /\ UNCHANGED <<tasks, aclose_task>>
    /\ UNCHANGED <<queue, worker_task, tokenVars, callVars, jobVars, enq,
                   since_start, since_request>>
    /\ UNCHANGED nonHttpVars

\* The cancelled worker is resumed with CancelledError at its suspension
\* point; inside a job the error passes through do_request and jobwrap, so
\* the job is abandoned with its future untouched.  A job taken from the
\* queue whose floor sleep is cancelled never runs.
WorkerCancelled(w) ==
    /\ tasks[w].st = "live"
    /\ tasks[w].cancel
    /\ tasks' = [tasks EXCEPT ![w] = Ended("cancelled")]
    /\ job_state' = IF tasks[w].job # None
                    THEN [job_state EXCEPT ![tasks[w].job] = "aborted"]
                    ELSE job_state
    /\ UNCHANGED <<queue, worker_task, closeVars, tokenVars, callVars,
                   attempts, failures, sleeps, enq, since_start, since_request>>
    /\ UNCHANGED nonHttpVars

\* A mutation of AcloseEnd: the client is closed in the `try` block, after
\* the `if`, and not in a `finally`, so the awaited cancellation skips it.
AcloseEndNoFinally ==
    /\ aclose_pc = "await"
    /\ TaskDone(aclose_task)
    /\ aclose_pc' = "done"
    /\ UNCHANGED <<queue, tasks, worker_task, client_closed, aclose_task,
                   tokenVars, callVars, jobVars, enq, since_start,
                   since_request>>
    /\ UNCHANGED nonHttpVars
\* `await self._worker_task` is over (CancelledError is swallowed), and the
\* `finally` closes the httpx client.
AcloseEnd ==
    /\ aclose_pc = "await"
    /\ TaskDone(aclose_task)
    /\ client_closed' = TRUE
    /\ aclose_pc' = "done"
    /\ UNCHANGED <<queue, tasks, worker_task, aclose_task, tokenVars,
                   callVars, jobVars, enq, since_start, since_request>>
    /\ UNCHANGED nonHttpVars

\* ----------------------------------------------------------------- time

\* self._token_exp - time.time() half a second later.  The code compares it
\* with the margin only, so a validity that has come down to the margin
\* stays there; one that started inside the margin goes on to 0 (expired).
TokenAfterTick ==
    IF token_ttl > TOKEN_MARGIN THEN token_ttl - 1
    ELSE IF token_ttl = TOKEN_MARGIN THEN token_ttl
    ELSE Max(token_ttl - 1, 0)

\* Half a second passes: every sleep has that much less left, every stored
\* instant is that much further back.
Tick ==
    /\ tasks' = [w \in Tasks |->
                   IF tasks[w].st = "live"
                   THEN [tasks[w] EXCEPT !.timer = Max(@ - 1, 0),
                                         !.since_call = Min(@ + 1, FLOOR)]
                   ELSE tasks[w]]
    /\ token_ttl' = TokenAfterTick
    /\ since_start' = Min(since_start + 1, FLOOR)
    /\ since_request' = Min(since_request + 1, FLOOR)
    /\ UNCHANGED <<queue, worker_task, closeVars, token, callVars, jobVars, enq>>
    /\ UNCHANGED nonHttpVars

Next ==
    \/ \E c \in Calls : Call(c)
    \/ \E c \in Calls : ExchangeFails(c)
    \/ \E c \in Calls : ExchangeNoExpiry(c)
    \/ \E c \in Calls, e \in ExpiresIn : ExchangeOk(c, e)
    \/ \E c \in Calls : Return(c)
    \/ \E c \in Calls : CancelCall(c)
    \/ \E w \in Tasks : WorkerGet(w)
    \/ \E w \in Tasks : WorkerWake(w)
    \/ \E w \in Tasks : ResponseOk(w)
    \/ \E w \in Tasks : ResponseHttpError(w)
    \/ \E w \in Tasks : ResponseBadBody(w)
    \/ \E w \in Tasks : BackoffWake(w)
    \/ \E w \in Tasks : WorkerCancelled(w)
    \/ AcloseBegin
    \/ AcloseEnd
    \/ Tick

Spec == Init /\ [][Next]_vars

\* ------------------------------------------------------------ properties

\* The calls whose job a live worker is executing (between the start of
\* `await job()` and its end: a network call or a backoff sleep).
Executing == {c \in Calls : \E w \in Tasks :
                 /\ tasks[w].st = "live"
                 /\ tasks[w].pc \in {"request", "backoff"}
                 /\ tasks[w].job = c}
LiveTasks == {w \in Tasks : tasks[w].st = "live"}
\* A step in which job c starts executing (`await job()` is reached).
JobStarts(c) == job_state[c] = "queued" /\ job_state'[c] \in {"running", "raised"}
\* A step in which a network request of job c is sent to the API.
RequestSent(c) == attempts'[c] = attempts[c] + 1
\* Call a was put on the queue before call b.
Before(a, b) == \E i, j \in 1..Len(enq) : i < j /\ enq[i] = a /\ enq[j] = b

\* Where the worker executing job c is suspended ("-" when none is).
tasks_pc_of(c) == IF \E w \in Tasks : tasks[w].st = "live" /\ tasks[w].job = c
                  THEN tasks[CHOOSE w \in Tasks :
                                tasks[w].st = "live" /\ tasks[w].job = c].pc
                  ELSE "-"

\* C1: at most one queued job is executing at any moment, however the
\* get/post calls are interleaved.
C1_OneJobAtATime == Cardinality(Executing) <= 1
\* One job is executing while another call's job waits behind it.
C1_Witness == \E a, b \in Calls :
    a \in Executing /\ b # a /\ job_state[b] = "queued"

\* C2: whenever a job starts executing, at least the floor interval (2
\* ticks) has passed since the previous job of the client started, also
\* when the worker was restarted by _ensure_worker in between.
C2_StartsFloorApart ==
    [][\A c \in Calls : JobStarts(c) => since_start >= FLOOR]_vars

\* C3: when the first network call of job b has been made, every job put on
\* the queue before b has ended and its caller's future has been resolved.
C3_FifoCompletion == \A a, b \in Calls :
    (Before(a, b) /\ attempts[b] >= 1) =>
        /\ job_state[a] \in {"finished", "raised", "aborted"}
        /\ fut[a] # "pending"

\* C4: a job makes at most 4 attempts; the sleeps before its retries are
\* 0.5 s, 1.0 s and 2.0 s (1, 2, 4 ticks) in that order, one before each
\* retry; and the successful attempt is the last one: it stores the JSON of
\* that request and no attempt follows it.
C4_BoundedRetries == \A c \in Calls :
    /\ attempts[c] <= 4
    /\ Len(sleeps[c]) <= 3
    /\ sleeps[c] = SubSeq(<<1, 2, 4>>, 1, Len(sleeps[c]))
    /\ attempts[c] <= Len(sleeps[c]) + 1
    /\ (tasks_pc_of(c) = "request") => attempts[c] = Len(sleeps[c]) + 1
    /\ result_holder[c].kind = "json" =>
          /\ result_holder[c] = Json(c)
          /\ failures[c] = attempts[c] - 1
          /\ c \notin Executing
\* A job succeeded on its third retry, after all three sleeps.
C4_Witness == \E c \in Calls :
    /\ attempts[c] = 4
    /\ sleeps[c] = <<1, 2, 4>>
    /\ result_holder[c] = Json(c)
    /\ pc[c] = "returned"

\* C5: when the first attempt and the 3 retries of a request all failed,
\* the job stored None and resolved the call's future, and the call does
\* not raise: it returns None.  A call raises only out of the token exchange,
\* before it has a job.
C5_NullAfterRetries == \A c \in Calls :
    /\ failures[c] = 4 =>
          /\ result_holder[c] = Null
          /\ fut[c] \in {"done", "cancelled"}
          /\ pc[c] \in {"waiting", "returned", "cancelled"}
          /\ pc[c] = "returned" => ret[c] = Null
    /\ pc[c] = "raised" => job_state[c] = "none" /\ attempts[c] = 0
\* A call whose four attempts all failed has returned None.
C5_Witness == \E c \in Calls :
    failures[c] = 4 /\ pc[c] = "returned" /\ ret[c] = Null

\* C6: every call that enqueued its job eventually returns, whatever the
\* outcome of its job, as long as the client is not closed.  Only the
\* call's own job resolves the call's future, so the claim requires that a
\* call still waiting, on a client aclose was not called on, either has its
\* job still ahead of it or under way, or has its future resolved.
C6_EveryCallReturns == \A c \in Calls :
    (pc[c] = "waiting" /\ aclose_pc = "idle") =>
        \/ job_state[c] \in {"queued", "running"}
        \/ fut[c] = "done"

\* C7: a call leaves the token check towards the token endpoint exactly
\* when no token is held or at most 30 s (60 ticks) are left to the stored
\* expiry, and goes straight on to enqueue its job exactly when a token is
\* held with more than 30 s left; no job is enqueued without the check.
C7_ExchangeIffStale ==
    [][\A c \in Calls :
          /\ (pc[c] = "idle" /\ pc'[c] # "idle") =>
                /\ pc'[c] = "exchange" <=> (token = None \/ token_ttl <= 60)
                /\ pc'[c] = "waiting" <=> (token # None /\ token_ttl > 60)
          /\ (job_state[c] = "none" /\ job_state'[c] = "queued") =>
                \/ pc[c] = "exchange"
                \/ pc[c] = "idle" /\ token # None /\ token_ttl > 60
      ]_vars
\* A call found a token set by another call's exchange with 30.5 s left and
\* enqueued its job with that token, without an exchange of its own.
C7_Witness == \E c \in Calls :
    /\ pc[c] = "waiting"
    /\ headers[c] # c
    /\ headers[c] = token
    /\ token_ttl = 61

\* C8: a failed credential exchange raises to the caller, enqueues no job
\* for the call and leaves the stored token and expiry unchanged.
C8_FailedExchangeChangesNothing ==
    [][\A c \in Calls :
          (pc[c] = "exchange" /\ pc'[c] = "raised") =>
              /\ token' = token
              /\ token_ttl' = token_ttl
              /\ queue' = queue
              /\ job_state'[c] = "none"
      ]_vars

\* C9: whenever a request is sent to the API, first attempt or retry, at
\* least the floor interval (2 ticks) has passed since the previous request
\* of the client was sent.
C9_RequestsFloorApart ==
    [][\A c \in Calls : RequestSent(c) => since_request >= FLOOR]_vars

\* C10: no worker task exists before the first get/post call; once a call
\* was made a worker task has been created; and at most one worker task is
\* live in every reachable state.
C10_SingleWorker ==
    /\ Cardinality(LiveTasks) <= 1
    /\ (\A c \in Calls : pc[c] = "idle") =>
          worker_task = None /\ \A w \in Tasks : tasks[w].st = "unborn"
    /\ (\E c \in Calls : pc[c] # "idle") => worker_task # None
    /\ worker_task # None => tasks[worker_task].st # "unborn"
\* Every call was made, a worker ended and _ensure_worker started the next
\* one, which is the only live one.
C10_Witness ==
    /\ \A c \in Calls : pc[c] # "idle"
    /\ \E w, v \in Tasks : w # v /\ tasks[w].st = "live" /\ TaskDone(v)
    /\ worker_task \in LiveTasks

\* C11: aclose requests the cancellation of a worker task that is running,
\* which then ends cancelled; when aclose is over, with or without an
\* error, the httpx client is closed; and on a client whose worker was
\* never started aclose closes the client and ends without an error, in
\* one step.
C11_AcloseClosesConnection ==
    [][/\ (aclose_pc = "idle" /\ aclose_pc' # "idle") =>
             /\ worker_task = None => (aclose_pc' = "done" /\ client_closed')
             /\ (worker_task # None /\ tasks[worker_task].st = "live") =>
                    /\ tasks'[worker_task].cancel
                    /\ aclose_task' = worker_task
       /\ aclose_pc' \in {"done", "raised"} => client_closed'
       /\ (aclose_pc' = "done" /\ aclose_task' # None) =>
             tasks'[aclose_task'].st = "cancelled"
      ]_vars
\* aclose is over on a client whose worker was executing a job: the worker
\* ended cancelled, the job was abandoned and the client is closed.
C11_Witness ==
    /\ aclose_pc = "done"
    /\ client_closed
    /\ aclose_task # None
    /\ tasks[aclose_task].st = "cancelled"
    /\ \E c \in Calls : job_state[c] = "aborted" /\ attempts[c] >= 1

\* C12: when a job ends, by a result, by exhausted retries or by an
\* exception, the worker that executed it is still running and goes on
\* with its loop.
C12_WorkerSurvivesJob ==
    [][\A w \in Tasks :
          (/\ Runs(w)
           /\ tasks[w].job # None
           /\ job_state'[tasks[w].job] \in {"finished", "raised"}
           /\ job_state[tasks[w].job] \notin {"finished", "raised"}) =>
              /\ tasks'[w].st = "live"
              /\ tasks'[w].pc \in {"get", "sleep"}
      ]_vars

\* C13: the stored token and expiry change only in a step that ends a
\* call's credential exchange (the expiry otherwise only comes nearer as
\* time passes), and a step that stores a token stores, with it, the expiry
\* of the same response.
C13_TokenOnlyByRefresh ==
    [][/\ token' # token =>
             /\ pc[token'] = "exchange"
             /\ pc'[token'] = "waiting"
             /\ token_ttl' \in ExpiresIn
       /\ (token_ttl' # token_ttl /\ token' = token) =>
             /\ token_ttl' = TokenAfterTick
             /\ pc' = pc /\ job_state' = job_state /\ queue' = queue
      ]_vars

\* ----------------------------------------------------- domain operations
\* One call of an operation of OsuApi (src/osu_api.py) or of OsuClient
\* (src/bot.py).  The requests of OsuApi go through _get, whose queue, floor
\* interval, token and backoff timing are modelled above: here _get is the
\* sequence of answers to the attempts of one request.

Identifiers == {[kind |-> k, val |-> u] : k \in {"username", "id"}, u \in AskedUsers}
\* The user the service finds for an identifier (0: none).
Lookup(i) == IF i.val \in KnownUsers THEN i.val ELSE 0

\* A mutation of PerPage: every page is asked for with the full page size.
PerPageFixed(r) == PAGE
\* `per_page = min(50, remaining)`
PerPage(r) == Min(PAGE, r)

\* The body of a score-list answer to request number q: n plays, each with
\* the mod set it was played with and, in its beatmap, the difficulty
\* rating of the unmodified beatmap.
Page(q, n, k) ==
    [i \in 1..n |-> [page |-> q, idx |-> i,
                     mods |-> ModCycle[((i + k) % Len(ModCycle)) + 1],
                     difficulty_rating |-> "raw"]]
\* The lengths of the lists the service may answer a request for pp items
\* with: none, one, one less than asked, as many as asked, one more.
PageLens(pp) == {n \in {0, 1, pp - 1, pp, pp + 1} : n >= 0}
\* The JSON bodies the service may answer the request that is out with.
OkBodies ==
    IF api_fn \in {"get_user", "resolve_user"}
    THEN IF Lookup(identifier) # 0 THEN {UserData(Lookup(identifier))} ELSE {}
    ELSE {ListData(Page(Len(requests), n, k)) :
              n \in PageLens(per_page), k \in 0..(Len(ModCycle) - 1)}

\* get_user_best leaves its loop: `return scores`.
GubReturn(rem, cur, sc) ==
    /\ api_pc' = "done"
    /\ api_ret' = ListData(sc)
    /\ remaining' = rem
    /\ cursor' = cur
    /\ scores' = sc
    /\ UNCHANGED <<per_page, requests, api_attempts>>

\* `while remaining > 0:` with its first statements, up to the suspension in
\* `await self._get(...)`; the `cursor[page]` parameter is sent when cursor
\* is set.
GubLoop(rem, cur, sc) ==
    IF rem > 0
    THEN /\ per_page' = PerPage(rem)
         /\ requests' = Append(requests, [limit |-> PerPage(rem), cursor |-> cur])
         /\ api_attempts' = 1
         /\ api_pc' = "await"
         /\ remaining' = rem
         /\ cursor' = cur
         /\ scores' = sc
         /\ UNCHANGED api_ret
    ELSE GubReturn(rem, cur, sc)

\* get_user_best(user_id, limit) is called.
GetUserBest(l) ==
    /\ api_pc = "idle"
    /\ api_fn' = "get_user_best"
    /\ limit' = l
    /\ GubLoop(l, 0, <<>>)
    /\ UNCHANGED <<identifier, pages, api_status, nonApiVars>>

\* get_user_best after `data = await self._get(...)`.
GubPage(data) ==
    /\ pages' = Append(pages, data)
    /\ IF data.kind = "null" \/ data.list = <<>>
       THEN GubReturn(remaining, cursor, scores)
       ELSE IF Len(data.list) < per_page
       THEN GubReturn(remaining, cursor, scores \o data.list)
       ELSE IF Len(data.list) = per_page
       THEN GubLoop(remaining - per_page,
                    (IF cursor = 0 THEN 1 ELSE cursor) + 1,
                    scores \o data.list)
       ELSE GubReturn(remaining - per_page, cursor, scores \o data.list)
    /\ UNCHANGED <<api_fn, identifier, limit>>

\* get_user_recent(user_id, include_fails, limit) is called: one request
\* with limit min(50, limit).
GetUserRecent(l) ==
    /\ api_pc = "idle"
    /\ api_fn' = "get_user_recent"
    /\ limit' = l
    /\ per_page' = Min(PAGE, l)
    /\ requests' = Append(requests, [limit |-> Min(PAGE, l), cursor |-> 0])
    /\ api_attempts' = 1
    /\ api_pc' = "await"
    /\ UNCHANGED <<identifier, remaining, cursor, scores, pages, api_status,
                   api_ret, nonApiVars>>

\* get_user_recent after _get: `return data or []`.
RecentPage(data) ==
    /\ pages' = Append(pages, data)
    /\ api_pc' = "done"
    /\ api_ret' = ListData(data.list)
    /\ UNCHANGED <<api_fn, identifier, limit, remaining, cursor, per_page,
                   scores, api_attempts, requests>>

\* OsuApi.get_user(identifier) / OsuClient.resolve_user(identifier) is
\* called: one request for the user's path.
GetUser(fn, i) ==
    /\ api_pc = "idle"
    /\ api_fn' = fn
    /\ identifier' = i
    /\ api_attempts' = 1
    /\ api_pc' = "await"
    /\ UNCHANGED <<limit, remaining, cursor, per_page, scores, requests,
                   pages, api_status, api_ret, nonApiVars>>

\* get_user after _get: `return await self._get(...)`.
UserPage(data) ==
    /\ api_pc' = "done"
    /\ api_ret' = data
    /\ UNCHANGED <<api_fn, identifier, limit, remaining, cursor, per_page,
                   scores, api_attempts, requests, pages>>

\* _get returned data to the operation that awaits it.
GetReturned(data) ==
    CASE api_fn = "get_user_best" -> GubPage(data)
      [] api_fn = "get_user_recent" -> RecentPage(data)
      [] OTHER -> UserPage(data)

\* An attempt of OsuApi._get is answered 2xx with a JSON body.
ApiAnswerOk(data) ==
    /\ api_pc = "await"
    /\ api_fn \in {"get_user", "get_user_best", "get_user_recent"}
    /\ data \in OkBodies
    /\ api_status' = "ok"
    /\ GetReturned(data)
    /\ UNCHANGED nonApiVars

\* A mutation of ApiRetriesOver: the last error is raised to the caller.
ApiRetriesOverRaise ==
    /\ api_pc' = "raised"
    /\ UNCHANGED <<api_fn, identifier, limit, remaining, cursor, per_page,
                   scores, api_attempts, requests, pages, api_ret>>
\* The attempts of OsuApi._get are used up: `result_holder["data"] = None`.
ApiRetriesOver == GetReturned(NoData)

\* An attempt of OsuApi._get fails with an httpx.HTTPError: status 404
\* for a user the service does not know, or another error status or a
\* transport error.  After a backoff sleep the next attempt is made, or the
\* attempts are used up.
ApiAnswerError(st) ==
    /\ api_pc = "await"
    /\ api_fn \in {"get_user", "get_user_best", "get_user_recent"}
    /\ st = "404" => (api_fn = "get_user" /\ Lookup(identifier) = 0)
    /\ api_status' = st
    /\ IF api_attempts <= Len(Backoff)
       THEN /\ api_attempts' = api_attempts + 1
            /\ UNCHANGED <<api_fn, api_pc, identifier, limit, remaining,
                           cursor, per_page, scores, requests, pages, api_ret>>
       ELSE ApiRetriesOver
    /\ UNCHANGED nonApiVars

\* OsuClient._get is answered 200: `return await resp.json()`.
BotAnswerOk(data) ==
    /\ api_pc = "await"
    /\ api_fn = "resolve_user"
    /\ data \in OkBodies
    /\ api_status' = "ok"
    /\ UserPage(data)
    /\ UNCHANGED nonApiVars

\* OsuClient._get is answered 404, the service's answer for a user it does
\* not know: `if resp.status == 404: return None`.
BotAnswer404 ==
    /\ api_pc = "await"
    /\ api_fn = "resolve_user"
    /\ Lookup(identifier) = 0
    /\ api_status' = "404"
    /\ UserPage(NoData)
    /\ UNCHANGED nonApiVars

\* OsuClient._get is answered with another error status:
\* resp.raise_for_status() raises, and so does resolve_user.
BotAnswerError ==
    /\ api_pc = "await"
    /\ api_fn = "resolve_user"
    /\ api_status' = "error"
    /\ api_pc' = "raised"
    /\ UNCHANGED <<api_fn, identifier, limit, remaining, cursor, per_page,
                   scores, api_attempts, requests, pages, api_ret, nonApiVars>>

ApiNext ==
    \/ \E l \in 0..MaxLimit : GetUserBest(l)
    \/ \E l \in 0..MaxLimit : GetUserRecent(l)
    \/ \E i \in Identifiers : GetUser("get_user", i)
    \/ \E i \in Identifiers : GetUser("resolve_user", i)
    \/ \E data \in OkBodies : ApiAnswerOk(data)
    \/ \E st \in {"404", "error"} : ApiAnswerError(st)
    \/ \E data \in OkBodies : BotAnswerOk(data)
    \/ BotAnswer404
    \/ BotAnswerError

ApiSpec == Init /\ [][ApiNext]_vars

\* The plays of the pages in ps, in page order.
RECURSIVE Flatten(_)
Flatten(ps) == IF ps = <<>> THEN <<>> ELSE Head(ps).list \o Flatten(Tail(ps))
\* A page that ends the data: null, empty or shorter than asked for.
ShortPage(j) == pages[j].kind = "null" \/ Len(pages[j].list) < requests[j].limit

\* C14: every play get_user_best or get_user_recent returned whose mod set
\* is neither empty nor the scoring-neutral mod alone carries a recalculated
\* difficulty rating, or null; never the raw rating of the payload.
C14_ModdedPlaysRecalculated ==
    (api_pc = "done" /\ api_fn \in {"get_user_best", "get_user_recent"}) =>
        \A i \in 1..Len(api_ret.list) :
            api_ret.list[i].mods \notin {{}, {"neutral"}} =>
                api_ret.list[i].difficulty_rating \in {"recalculated", "null"}

\* C15: get_user_best asks for pages of 1 to 50 items, at most
\* ceil(limit/50) of them; a page that is null, empty or shorter than asked
\* for is the last one and ends the call; a further page is asked for only
\* while fewer items were asked for than limit; and the call returns the
\* pages' plays in page order, at most limit of them when no page is longer
\* than asked for.
C15_Pagination ==
    api_fn = "get_user_best" =>
        /\ \A j \in 1..Len(requests) : requests[j].limit \in 1..50
        /\ Len(requests) * 50 < limit + 50
        /\ Len(pages) = IF api_pc = "await" THEN Len(requests) - 1 ELSE Len(requests)
        /\ api_pc \in {"await", "done"}
        /\ api_attempts <= 4
        /\ \A j \in 1..Len(pages) :
              ShortPage(j) => (j = Len(pages) /\ api_pc = "done")
        /\ api_pc = "await" =>
              50 * (Len(requests) - 1) < limit
        /\ api_pc = "done" =>
              /\ api_ret = ListData(Flatten(pages))
              /\ (\A j \in 1..Len(pages) : Len(pages[j].list) <= requests[j].limit)
                    => Len(api_ret.list) <= limit
\* A call with limit 101 was answered three full pages and returned 101
\* plays.
C15_Witness ==
    /\ api_fn = "get_user_best"
    /\ api_pc = "done"
    /\ limit = 101
    /\ Len(requests) = 3
    /\ requests[3].limit = 1
    /\ Len(api_ret.list) = 101

\* C16: get_user and resolve_user, asked for a username or an id the service
\* does not know, return None; get_user never raises, and resolve_user
\* raises only on an answer other than the service's not-found.
C16_UnknownUserIsNull ==
    (api_fn \in {"get_user", "resolve_user"} /\ Lookup(identifier) = 0) =>
        /\ api_pc = "done" => api_ret = NoData
        /\ api_fn = "get_user" => api_pc # "raised"
        /\ api_pc = "raised" => api_status = "error"
        /\ (api_fn = "resolve_user" /\ api_status = "404") =>
              (api_pc = "done" /\ api_ret = NoData)
\* get_user returned None for an unknown numeric id after four attempts that
\* were all answered not-found.
C16_Witness ==
    /\ api_fn = "get_user"
    /\ identifier = [kind |-> "id", val |-> 2]
    /\ api_attempts = 4
    /\ api_status = "404"
    /\ api_pc = "done"
    /\ api_ret = NoData

\* ------------------------------------------------------------ compute.py
\* Numbers are fixed-point: star ratings (SR, TS, the top-10 average) in
\* thousandths of a star, accuracy in tenths of a percent, pp and the map
\* length in units, and a push value in 1500ths, the unit in which every
\* `return` of compute_push_value is a whole number for these inputs.  The
\* square root is cut to the thousandth of a star.

\* The largest top10_miss_sum compute_TS is called with.
MaxMissSum == 30
\* How many units of a push value make 1.0.
ValueUnit == 1500

\* math.sqrt, of n given in millionths and returned in thousandths.
Sqrt(n) == CHOOSE d \in 0..n : d * d <= n /\ (d + 1) * (d + 1) > n

\* A mutation of compute_TS: the division by 10 is forgotten.
compute_TS_NoDivision(top10_avg_star_raw, top10_miss_sum) ==
    top10_avg_star_raw - Sqrt(1000000 * top10_miss_sum)
\* `return top10_avg_star_raw - (sqrt(top10_miss_sum) / 10.0)`: sqrt(m)/10
\* in thousandths is sqrt(10000 * m).
compute_TS(top10_avg_star_raw, top10_miss_sum) ==
    top10_avg_star_raw - Sqrt(10000 * top10_miss_sum)

\* A mutation of Cond: the third condition includes its boundary, 95.
CondClosed95(k, x) ==
    LET pp == x.pp
        SR == x.SR
        TS == x.TS
        acc == x.accuracy_percent
        Top50 == x.top50_pp_threshold
    IN CASE k = 1 -> (pp > Top50) /\ (SR < TS)
         [] k = 2 -> (pp > Top50) /\ (SR >= TS)
         [] k = 3 -> (pp <= Top50) /\ (acc >= 950)
         [] k = 4 -> (pp <= Top50) /\ (920 <= acc /\ acc <= 950)
         [] k = 5 -> (pp <= Top50) /\ (850 <= acc /\ acc < 920)
         [] k = 6 -> (pp <= Top50) /\ (750 <= acc /\ acc < 850)
         [] k = 7 -> (pp <= Top50) /\ (acc < 750)
         [] OTHER -> TRUE
\* A mutation of Cond: the lower boundary of the fifth condition, 85, is
\* excluded.
CondOpen85(k, x) ==
    LET pp == x.pp
        SR == x.SR
        TS == x.TS
        acc == x.accuracy_percent
        Top50 == x.top50_pp_threshold
    IN CASE k = 1 -> (pp > Top50) /\ (SR < TS)
         [] k = 2 -> (pp > Top50) /\ (SR >= TS)
         [] k = 3 -> (pp <= Top50) /\ (acc > 950)
         [] k = 4 -> (pp <= Top50) /\ (920 <= acc /\ acc <= 950)
         [] k = 5 -> (pp <= Top50) /\ (850 < acc /\ acc < 920)
         [] k = 6 -> (pp <= Top50) /\ (750 <= acc /\ acc < 850)
         [] k = 7 -> (pp <= Top50) /\ (acc < 750)
         [] OTHER -> TRUE
\* The condition of the k-th `if` of compute_push_value; the final `return`
\* (8) has none.
Cond(k, x) ==
    LET pp == x.pp
        SR == x.SR
        TS == x.TS
        acc == x.accuracy_percent
        Top50 == x.top50_pp_threshold
    IN CASE k = 1 -> (pp > Top50) /\ (SR < TS)
         [] k = 2 -> (pp > Top50) /\ (SR >= TS)
         [] k = 3 -> (pp <= Top50) /\ (acc > 950)
         [] k = 4 -> (pp <= Top50) /\ (920 <= acc /\ acc <= 950)
         [] k = 5 -> (pp <= Top50) /\ (850 <= acc /\ acc < 920)
         [] k = 6 -> (pp <= Top50) /\ (750 <= acc /\ acc < 850)
         [] k = 7 -> (pp <= Top50) /\ (acc < 750)
         [] OTHER -> TRUE

\* A mutation of Penalty: the floor is forgotten.
PenaltyNoFloor(x) == -15000 * (x.TS - x.SR)
\* `max(-10000.0, -10000.0 * (TS - SR))`, TS - SR being in thousandths:
\* -10000 is -15000000 1500ths, and -10000 * (TS - SR) is -15000 1500ths
\* for each thousandth.
Penalty(x) == Max(-15000000, -15000 * (x.TS - x.SR))

\* A mutation of Returned: the fourth case divides by 2, not by 3.
ReturnedHalf(k, x) ==
    LET acc == x.accuracy_percent
        length == x.map_length_seconds
    IN CASE k = 1 -> Penalty(x)
         [] k = 2 -> 0
         [] k = 3 -> 0
         [] k = 4 -> (950 - acc) * 75 * length
         [] k = 5 -> ValueUnit * length
         [] k = 6 -> (12 * acc - 8700) * length
         [] k = 7 -> 300 * length
         [] OTHER -> 0
\* A mutation of Returned: the slope of the sixth case is 0.8, not 0.08.
ReturnedSlope(k, x) ==
    LET acc == x.accuracy_percent
        length == x.map_length_seconds
    IN CASE k = 1 -> Penalty(x)
         [] k = 2 -> 0
         [] k = 3 -> 0
         [] k = 4 -> (950 - acc) * 50 * length
         [] k = 5 -> ValueUnit * length
         [] k = 6 -> (120 * acc - 8700) * length
         [] k = 7 -> 300 * length
         [] OTHER -> 0
\* The value of the k-th `return` of compute_push_value, in 1500ths, acc
\* being in tenths: ((95 - acc) / 3) * length is (950 - acc) * 50 * length,
\* (0.08 * acc - 5.8) * length is (12 * acc - 8700) * length and
\* 0.2 * length is 300 * length.
Returned(k, x) ==
    LET acc == x.accuracy_percent
        length == x.map_length_seconds
    IN CASE k = 1 -> Penalty(x)
         [] k = 2 -> 0
         [] k = 3 -> 0
         [] k = 4 -> (950 - acc) * 50 * length
         [] k = 5 -> ValueUnit * length
         [] k = 6 -> (12 * acc - 8700) * length
         [] k = 7 -> 300 * length
         [] OTHER -> 0

\* The `return` compute_push_value takes: that of the first `if` whose
\* condition holds, or the final one.
FirstCase(x) == CHOOSE k \in 1..8 :
    Cond(k, x) /\ \A j \in 1..(k - 1) : ~Cond(j, x)

compute_push_value(x) == Returned(FirstCase(x), x)

\* The arguments the functions are called with.  pp and the threshold lie on
\* both sides of each other; SR and TS differ by nothing, by less and by
\* more than one star; the accuracies lie on, next to and between the
\* boundaries 75, 85, 92 and 95; the lengths include 0 and a negative one.
PPs == {200, 250, 300}
Top50s == {0, 250}
SRs == {0, 4000, 4950, 5000, 5500}
TSs == {4000, 5000}
Accs == {0, 600, 749, 750, 751, 800, 849, 850, 851, 900, 919, 920, 921,
         940, 949, 950, 951, 980, 1000}
Lengths == {-10, 0, 1, 100, 120}
Avgs == {0, 3210, 6000}
PushInputs == {Args(pp, SR, TS, acc, len, Top50, 0, 0) :
                  pp \in PPs, SR \in SRs, TS \in TSs, acc \in Accs,
                  len \in Lengths, Top50 \in Top50s}
TSInputs == {Args(0, 0, 0, 0, 0, 0, avg, miss) :
                avg \in Avgs, miss \in 0..MaxMissSum}

\* A function of compute.py is about to be called with arguments x.
ComputeInit ==
    /\ HttpInit
    /\ ApiInit
    /\ StorageInit
    /\ BotInit
    /\ c_pc = "called"
    /\ c_case = 0
    /\ c_out = 0
    /\ \/ c_fn = "compute_TS" /\ c_in \in TSInputs
       \/ c_fn = "compute_push_value" /\ c_in \in PushInputs

\* compute_TS(top10_avg_star_raw, top10_miss_sum) returns.
ComputeTS ==
    /\ c_pc = "called"
    /\ c_fn = "compute_TS"
    /\ c_out' = compute_TS(c_in.top10_avg_star_raw, c_in.top10_miss_sum)
    /\ c_pc' = "returned"
    /\ UNCHANGED <<c_fn, c_in, c_case, nonComputeVars>>

\* compute_push_value(inputs) returns.
ComputePushValue ==
    /\ c_pc = "called"
    /\ c_fn = "compute_push_value"
    /\ c_case' = FirstCase(c_in)
    /\ c_out' = compute_push_value(c_in)
    /\ c_pc' = "returned"
    /\ UNCHANGED <<c_fn, c_in, nonComputeVars>>

ComputeNext == ComputeTS \/ ComputePushValue

ComputeSpec == ComputeInit /\ [][ComputeNext]_vars

\* C17: compute_TS(avg, missSum) is avg - sqrt(missSum)/10 for missSum >= 0:
\* ten times the difference avg - TS, squared, is missSum (to the thousandth
\* of a star the square root is cut to); with missSum 0 the result is avg;
\* and avg 6 with missSum 25 gives 5.5.
C17_BaselineFormula ==
    (c_fn = "compute_TS" /\ c_pc = "returned") =>
        LET avg == c_in.top10_avg_star_raw
            miss == c_in.top10_miss_sum
            d == avg - c_out
        IN /\ d >= 0
           /\ d * d <= 10000 * miss
           /\ (d + 1) * (d + 1) > 10000 * miss
           /\ miss = 0 => c_out = avg
           /\ (avg = 6000 /\ miss = 25) => c_out = 5500
\* compute_TS(6, 25) returned 5.5.
C17_Witness ==
    /\ c_fn = "compute_TS"
    /\ c_pc = "returned"
    /\ c_in.top10_avg_star_raw = 6000
    /\ c_in.top10_miss_sum = 25
    /\ c_out = 5500

\* C18: compute_push_value returns 0 for pp > threshold and difficulty >=
\* TS, and for pp <= threshold: 0 for accuracy > 95, ((95 - accuracy)/3) *
\* length for 92 <= accuracy <= 95, length for 85 <= accuracy < 92,
\* (0.08 * accuracy - 5.8) * length for 75 <= accuracy < 85 and 0.2 * length
\* for accuracy < 75; pp 200, difficulty 4.0, TS 5.0, accuracy 90, length
\* 100, threshold 250 gives 100.  (c_out is in 1500ths, accuracy in tenths.)
C18_CaseTable ==
    (c_fn = "compute_push_value" /\ c_pc = "returned") =>
        LET pp == c_in.pp
            thr == c_in.top50_pp_threshold
            acc == c_in.accuracy_percent
            len == c_in.map_length_seconds
        IN /\ (pp > thr /\ c_in.SR >= c_in.TS) => c_out = 0
           /\ (pp <= thr /\ acc > 950) => c_out = 0
           /\ (pp <= thr /\ 920 <= acc /\ acc <= 950) =>
                 30 * c_out = 1500 * (950 - acc) * len
           /\ (pp <= thr /\ 850 <= acc /\ acc < 920) => c_out = 1500 * len
           /\ (pp <= thr /\ 750 <= acc /\ acc < 850) =>
                 1000 * c_out = 1500 * (8 * acc - 5800) * len
           /\ (pp <= thr /\ acc < 750) => 5 * c_out = 1500 * len
           /\ (pp = 200 /\ c_in.SR = 4000 /\ c_in.TS = 5000 /\ acc = 900
                 /\ len = 100 /\ thr = 250) => c_out = 1500 * 100
\* The scenario of the claim returned 100.
C18_Witness ==
    /\ c_fn = "compute_push_value"
    /\ c_pc = "returned"
    /\ c_in = Args(200, 4000, 5000, 900, 100, 250, 0, 0)
    /\ c_case = 5
    /\ c_out = 150000

\* C19: for pp > threshold and difficulty < TS compute_push_value returns
\* max(-10000, -10000 * (TS - difficulty)): negative, -10000 for each star
\* of the gap up to one star and -10000 from there on; and whenever length
\* >= 0 the result lies between -10000 and length.  (c_out is in 1500ths,
\* the gap in thousandths: -10000 a star is -15000 1500ths a thousandth.)
C19_PenaltyAndRange ==
    (c_fn = "compute_push_value" /\ c_pc = "returned") =>
        LET gap == c_in.TS - c_in.SR
            len == c_in.map_length_seconds
        IN /\ (c_in.pp > c_in.top50_pp_threshold /\ gap > 0) =>
                 /\ c_out < 0
                 /\ gap <= 1000 => c_out = -15000 * gap
                 /\ gap >= 1000 => c_out = -10000 * 1500
           /\ len >= 0 => (-10000 * 1500 <= c_out /\ c_out <= 1500 * len)
\* The scenario of the claim returned -10000.
C19_Witness ==
    /\ c_fn = "compute_push_value"
    /\ c_pc = "returned"
    /\ c_in = Args(300, 4000, 5000, 980, 120, 250, 0, 0)
    /\ c_case = 1
    /\ c_out = -15000000

\* C20: for every input exactly one of the seven conditions of
\* compute_push_value holds, and the `return` taken is the one of that
\* condition, never the final `return 0.0`.
C20_ExactlyOneCase ==
    (c_fn = "compute_push_value" /\ c_pc = "returned") =>
        /\ Cardinality({k \in 1..7 : Cond(k, c_in)}) = 1
        /\ c_case \in 1..7
        /\ Cond(c_case, c_in)
\* An input on the boundary 75 of the last two accuracy cases was decided.
C20_Witness ==
    /\ c_fn = "compute_push_value"
    /\ c_pc = "returned"
    /\ c_in.accuracy_percent = 750
    /\ c_in.pp <= c_in.top50_pp_threshold
    /\ c_case = 6

C30_Case3At95 ==
    (c_fn = "compute_push_value" /\ c_pc = "returned"
        /\ c_in.pp <= c_in.top50_pp_threshold
        /\ c_in.accuracy_percent = 950) => c_case = 3
\* C30 as amended: for pp <= threshold and accuracy exactly 95 the third
\* condition (accuracy > 95) does not hold and the `return` taken is the
\* fourth (92 <= accuracy <= 95), whose value there is 0, the constant of
\* the third.
C30_Case4At95 ==
    (c_fn = "compute_push_value" /\ c_pc = "returned"
        /\ c_in.pp <= c_in.top50_pp_threshold
        /\ c_in.accuracy_percent = 950) =>
            /\ ~Cond(3, c_in)
            /\ c_case = 4
            /\ c_out = 0
            /\ c_out = Returned(3, c_in)
\* An input with accuracy exactly 95 and a length of 120 was decided by the
\* fourth case.
C30_Witness ==
    /\ c_fn = "compute_push_value"
    /\ c_pc = "returned"
    /\ c_in.pp <= c_in.top50_pp_threshold
    /\ c_in.accuracy_percent = 950
    /\ c_in.map_length_seconds = 120
    /\ c_case = 4
    /\ c_out = 0

\* C27: whenever a network attempt of a job is sent, first attempt or retry,
\* the token in its Authorization header has not expired.  The token in the
\* header is followed while it is the stored one; its validity left is then
\* token_ttl.
C27_TokenValidAtDispatch ==
    [][\A c \in Calls :
          (RequestSent(c) /\ headers[c] = token) => token_ttl > 0]_vars

\* C28: once aclose is over, no worker task is started, no credential
\* exchange is begun and no request of a job is sent.
C28_NothingAfterAclose ==
    [][(aclose_pc \in {"done", "raised"}) =>
          /\ \A w \in Tasks : tasks[w].st = "unborn" => tasks'[w].st = "unborn"
          /\ \A c \in Calls : pc'[c] = "exchange" => pc[c] = "exchange"
          /\ \A c \in Calls : ~RequestSent(c)
      ]_vars

\* C29: a call that returned was signalled by its own job, after that job
\* had finished, and what it returned is the outcome of its own request:
\* the JSON answering it, or None after its own four failed attempts; a
\* future is resolved only by the job of its call.
C29_OwnResult == \A c \in Calls :
    /\ pc[c] = "returned" =>
          /\ job_state[c] = "finished"
          /\ fut[c] = "done"
          /\ \/ ret[c] = Json(c) /\ failures[c] = attempts[c] - 1
             \/ ret[c] = Null /\ failures[c] = 4
    /\ fut[c] = "done" =>
          /\ job_state[c] = "finished"
          /\ result_holder[c] \in {Json(c), Null}
\* Two calls were in flight together (the second used the token the first
\* had fetched); the first returned None after four failures, the second
\* its own JSON.
C29_Witness ==
    \E a, b \in Calls :
        /\ Before(a, b)
        /\ headers[b] = a
        /\ pc[a] = "returned" /\ ret[a] = Null
        /\ pc[b] = "returned" /\ ret[b] = Json(b)

\* ------------------------------------------------ src/storage.py: plays
\* Storage is synchronous: a method runs from its first statement to the
\* commit of its session without another method of the same process running
\* in between, so each method is one step.
\*
\* Timestamps are counted in hours.  A push value is a nullable float: a
\* row carries has_push (the column is not NULL) and push_value.

\* The largest number of rows in table plays.
MaxPlays == 3

Users == {1, 2}
Beatmaps == {1, 2}
Timestamps == {5, 6}
\* NULL, a negative and a positive push value.
PushValues == {[has_push |-> FALSE, push_value |-> 0],
               [has_push |-> TRUE, push_value |-> -3],
               [has_push |-> TRUE, push_value |-> 10]}
\* What utcnow_naive() reads, and the scopes cumulative_push is called with:
\* none, or a number of hours.
Nows == {10, 11}
Scopes == {[scoped |-> FALSE, hours |-> 0],
           [scoped |-> TRUE, hours |-> 4],
           [scoped |-> TRUE, hours |-> 5]}

\* A Play object: the columns of models.Play the methods read.
PlayRow(u, b, t, v) ==
    [user_id |-> u, beatmap_id |-> b, timestamp |-> t,
     has_push |-> v.has_push, push_value |-> v.push_value]
PlayInputs ==
    {PlayRow(u, b, t, v) : u \in Users, b \in Beatmaps, t \in Timestamps,
                           v \in PushValues}

\* A mutation of Exists: the timestamp is not part of the key.
ExistsIgnoringTimestamp(p) ==
    \E q \in plays : q.user_id = p.user_id /\ q.beatmap_id = p.beatmap_id

\* `exists = s.scalar(select(Play.id).where(user_id ==, beatmap_id ==,
\* timestamp ==))`: a row with p's key is stored.
Exists(p) ==
    \E q \in plays : /\ q.user_id = p.user_id
                      /\ q.beatmap_id = p.beatmap_id
                      /\ q.timestamp = p.timestamp

\* insert_play_if_new(p): False when a row with p's key exists, otherwise
\* the row is added and the result is True.
InsertPlayIfNew(p) ==
    /\ Exists(p) \/ Cardinality(plays) < MaxPlays
    /\ plays' = IF Exists(p) THEN plays ELSE plays \cup {p}
    /\ st_op' = Op("insert_play_if_new", p)
    /\ st_ret' = Ret(~Exists(p), 0, {})
    /\ UNCHANGED <<topstats, first_topstats>>
    /\ UNCHANGED nonStorageVars

\* A mutation of InScope: the bound `since` is excluded.
InScopeStrict(q, scope, now) ==
    scope.scoped => q.timestamp > now - scope.hours

\* `if scope_hours is not None: since = utcnow_naive() -
\* timedelta(hours=scope_hours); q = q.where(Play.timestamp >= since)`.
InScope(q, scope, now) ==
    scope.scoped => q.timestamp >= now - scope.hours

\* SUM(push_value) over a set of rows.
RECURSIVE SumPush(_)
SumPush(rows) ==
    IF rows = {} THEN 0
    ELSE LET q == CHOOSE r \in rows : TRUE
         IN q.push_value + SumPush(rows \ {q})

\* cumulative_push(user_id, scope_hours): the SUM over the rows of the user
\* whose push_value is not NULL and that are in scope; SUM over no row is
\* NULL, and `float(val or 0.0)` makes it 0.0.
CumulativePush(u, scope, now) ==
    LET rows == {q \in plays : /\ q.user_id = u
                                /\ q.has_push
                                /\ InScope(q, scope, now)}
    IN /\ st_op' = Op("cumulative_push",
                      [user_id |-> u, scope |-> scope, now |-> now])
       /\ st_ret' = Ret(FALSE, IF rows = {} THEN 0 ELSE SumPush(rows), {})
       /\ UNCHANGED <<plays, topstats, first_topstats>>
       /\ UNCHANGED nonStorageVars

PlaysNext ==
    \/ \E p \in PlayInputs : InsertPlayIfNew(p)
    \/ \E u \in Users, scope \in Scopes, now \in Nows :
          CumulativePush(u, scope, now)

PlaysSpec == Init /\ [][PlaysNext]_vars

\* C22: insert_play_if_new is idempotent on the key (user, beatmap,
\* timestamp): no row ever leaves the table, the table holds at most one
\* row per key, the insert of a key that is not stored returns True and adds
\* exactly the given row, and the insert of a stored key returns False and
\* leaves the table as it is.
C22_InsertIdempotent ==
    [][/\ \A q \in plays : q \in plays'
       /\ \A q, r \in plays' :
             (/\ q.user_id = r.user_id
              /\ q.beatmap_id = r.beatmap_id
              /\ q.timestamp = r.timestamp) => q = r
       /\ \A p \in PlayInputs :
             (st_op' = Op("insert_play_if_new", p)) =>
                LET stored == {q \in plays : /\ q.user_id = p.user_id
                                              /\ q.beatmap_id = p.beatmap_id
                                              /\ q.timestamp = p.timestamp}
                IN /\ stored = {} => st_ret'.flag /\ plays' = plays \cup {p}
                   /\ stored # {} => ~st_ret'.flag /\ plays' = plays
      ]_vars

\* A second insert of a stored key with another push value was refused, and
\* the row stored first is still there.
C22_Witness ==
    /\ st_op.fn = "insert_play_if_new"
    /\ ~st_ret.flag
    /\ st_op.arg \notin plays
    /\ \E q \in plays : /\ q.user_id = st_op.arg.user_id
                         /\ q.beatmap_id = st_op.arg.beatmap_id
                         /\ q.timestamp = st_op.arg.timestamp
    /\ Cardinality(plays) > 1

\* What a stored row adds to cumulative_push(u, scope) read at `now`.
Contribution(q, u, scope, now) ==
    IF /\ q.user_id = u
       /\ q.has_push
       /\ (~scope.scoped \/ q.timestamp >= now - scope.hours)
    THEN q.push_value
    ELSE 0

RECURSIVE SumContributions(_, _, _, _)
SumContributions(rows, u, scope, now) ==
    IF rows = {} THEN 0
    ELSE LET q == CHOOSE r \in rows : TRUE
         IN Contribution(q, u, scope, now)
              + SumContributions(rows \ {q}, u, scope, now)

\* C24: cumulative_push(user, scope) returns the sum of the push values of
\* the user's stored rows whose push value is not NULL and whose timestamp
\* is at or after now minus the scope (every timestamp when there is no
\* scope); rows of other users add nothing, and the result is 0 when no row
\* qualifies.
C24_CumulativePush ==
    st_op.fn = "cumulative_push" =>
        st_ret.num = SumContributions(plays, st_op.arg.user_id,
                                      st_op.arg.scope, st_op.arg.now)

\* A scoped sum that took a row stamped exactly at now minus the scope and
\* left out a row before it and a row of another user.
C24_Witness ==
    /\ st_op.fn = "cumulative_push"
    /\ st_op.arg.scope.scoped
    /\ st_ret.num = 10
    /\ \E q, r, o \in plays :
          /\ q.user_id = st_op.arg.user_id /\ q.has_push
          /\ q.timestamp = st_op.arg.now - st_op.arg.scope.hours
          /\ r.user_id = st_op.arg.user_id /\ r.has_push
          /\ r.timestamp < st_op.arg.now - st_op.arg.scope.hours
          /\ r.push_value = -3
          /\ o.user_id # st_op.arg.user_id /\ o.has_push
          /\ o.timestamp >= st_op.arg.now - st_op.arg.scope.hours

\* --------------------------------------------- src/storage.py: topstats
Months == {"2024-01", "2024-02"}
\* Two baselines: the four computed columns of models.TopStats, stars in
\* thousandths.
Baselines ==
    {[top10_avg_star_raw |-> 6000, top10_miss_sum |-> 25,
      top_star_TS |-> 5500, top50_pp_threshold |-> 250],
     [top10_avg_star_raw |-> 6500, top10_miss_sum |-> 0,
      top_star_TS |-> 6500, top50_pp_threshold |-> 300]}

\* A TopStats object.
TopStatsRow(u, m, b) ==
    [user_id |-> u, month |-> m,
     top10_avg_star_raw |-> b.top10_avg_star_raw,
     top10_miss_sum |-> b.top10_miss_sum,
     top_star_TS |-> b.top_star_TS,
     top50_pp_threshold |-> b.top50_pp_threshold]
TopStatsInputs ==
    {TopStatsRow(u, m, b) : u \in Users, m \in Months, b \in Baselines}

\* `select(TopStats).where((TopStats.user_id == ...) & (TopStats.month ==
\* ...))`: the rows of a (user, month).
TopStatsOf(rows, u, m) == {r \in rows : r.user_id = u /\ r.month = m}

\* get_topstats(user_id, month_str): the row of the key, or None.
GetTopstats(u, m) ==
    /\ st_op' = Op("get_topstats", [user_id |-> u, month |-> m])
    /\ st_ret' = Ret(FALSE, 0, TopStatsOf(topstats, u, m))
    /\ UNCHANGED <<plays, topstats, first_topstats>>
    /\ UNCHANGED nonStorageVars

\* upsert_topstats(ts): the four computed columns of an existing row of the
\* key are assigned from ts; without such a row, ts is added.
\* first_topstats keeps the row each key was created with.
UpsertTopstats(ts) ==
    LET existing == TopStatsOf(topstats, ts.user_id, ts.month)
    IN /\ topstats' =
             IF existing # {}
             THEN (topstats \ existing) \cup
                  {[e EXCEPT !.top10_avg_star_raw = ts.top10_avg_star_raw,
                             !.top10_miss_sum = ts.top10_miss_sum,
                             !.top_star_TS = ts.top_star_TS,
                             !.top50_pp_threshold = ts.top50_pp_threshold]
                     : e \in existing}
             ELSE topstats \cup {ts}
       /\ first_topstats' =
             IF existing # {} THEN first_topstats
             ELSE first_topstats \cup {ts}
       /\ st_op' = Op("upsert_topstats", ts)
       /\ st_ret' = Ret(FALSE, 0, {})
       /\ UNCHANGED plays
       /\ UNCHANGED nonStorageVars

TopStatsNext ==
    \/ \E ts \in TopStatsInputs : UpsertTopstats(ts)
    \/ \E u \in Users, m \in Months : GetTopstats(u, m)

TopStatsSpec == Init /\ [][TopStatsNext]_vars

\* C23: once a row exists for a (user, month), the table holds exactly one
\* row for that key, and it is the row the key was created with.
C23_FirstWriterStands ==
    \A f \in first_topstats :
        TopStatsOf(topstats, f.user_id, f.month) = {f}

\* ------------------------------------- src/bot.py: fetch_last_24h_for_all
\* The daily task awaits one request per player; what it does with the
\* answer (the loop over the scores) has no await, so it is part of the
\* step that receives the answer.  Timestamps are counted in hours.

\* The number of rows of table players; the players are numbered in the
\* order list_players returns them, and the number is the osu! user id.
NumPlayers == 2
\* The largest number of scores in one answer.
MaxScores == 2

Players == 1 .. NumPlayers
\* `now`, `since = now - timedelta(hours=24)` and `month_start(now)`: the
\* task runs ten hours into a month.
NowHour == 100
Since == NowHour - 24
MonthStart == NowHour - 10

\* What a score of the answer carries as ended_at: nothing, a string that
\* is not ISO 8601, or an instant (before the window, in the window but in
\* the previous month, in the window and in this month).
EndedAts ==
    {[kind |-> "missing", t |-> 0], [kind |-> "malformed", t |-> 0],
     [kind |-> "iso", t |-> Since - 6], [kind |-> "iso", t |-> Since + 4],
     [kind |-> "iso", t |-> NowHour - 5]}
ModLists == {<< >>, <<"NF">>, <<"HD", "NF">>}
ScoreIds == {1, 2}
ScoreJsons == [id : ScoreIds, ended_at : EndedAts, mods : ModLists]
Answers == UNION {[1 .. n -> ScoreJsons] : n \in 0 .. MaxScores}

\* `",".join(mods)`: the string, as the sequence of its parts.
RECURSIVE Join(_)
Join(mods) ==
    IF Len(mods) <= 1 THEN mods
    ELSE <<Head(mods), ",">> \o Join(Tail(mods))

\* ScoreRow.from_osu_json(user_id, s).to_db_row(): the columns kept here.
from_osu_json(user_id, s) ==
    [osu_user_id |-> user_id, score_id |-> s.id,
     mods |-> Join(s.mods), timestamp |-> s.ended_at.t]

\* Database.insert_score: INSERT OR IGNORE under UNIQUE(osu_user_id,
\* score_id).
insert_score(rows, row) ==
    IF \E r \in rows : /\ r.osu_user_id = row.osu_user_id
                        /\ r.score_id = row.score_id
    THEN rows
    ELSE rows \cup {row}

\* `for s in scores:` from table `rows` on: the table afterwards, and
\* whether an exception left the loop (datetime.fromisoformat raises
\* ValueError on a malformed string).
RECURSIVE ProcessScores(_, _, _)
ProcessScores(rows, user_id, answer) ==
    IF answer = << >> THEN [rows |-> rows, raised |-> FALSE]
    ELSE LET s == Head(answer)
         IN IF s.ended_at.kind = "missing"
            THEN ProcessScores(rows, user_id, Tail(answer))
            ELSE IF s.ended_at.kind = "malformed"
            THEN [rows |-> rows, raised |-> TRUE]
            ELSE IF s.ended_at.t < Since
            THEN ProcessScores(rows, user_id, Tail(answer))
            ELSE IF s.ended_at.t < MonthStart
            THEN ProcessScores(rows, user_id, Tail(answer))
            ELSE ProcessScores(insert_score(rows, from_osu_json(user_id, s)),
                               user_id, Tail(answer))

\* daily_fetch_task fires: fetch_last_24h_for_all lists the players and
\* begins the iteration of the first one, up to the await of its request.
BatchStart ==
    /\ b_pc \in {"idle", "done", "raised"}
    /\ b_pc' = "fetching"
    /\ b_i' = 1
    /\ b_visited' = {1}
    /\ UNCHANGED b_scores
    /\ UNCHANGED nonBotVars

\* `continue`, or the end of the body of `for p in players:`: the next
\* player's iteration begins, or the loop is over.
NextPlayer ==
    IF b_i = NumPlayers
    THEN b_pc' = "done" /\ UNCHANGED <<b_i, b_visited>>
    ELSE /\ b_pc' = "fetching"
         /\ b_i' = b_i + 1
         /\ b_visited' = b_visited \cup {b_i + 1}

\* recent_scores raises: `except Exception: log.exception(...); continue`.
FetchRaises ==
    /\ b_pc = "fetching"
    /\ NextPlayer
    /\ UNCHANGED b_scores
    /\ UNCHANGED nonBotVars

\* recent_scores returns: the scores are processed; an exception raised
\* there is outside the try block, leaves fetch_last_24h_for_all and is
\* logged by daily_fetch_task.
FetchReturns(answer) ==
    /\ b_pc = "fetching"
    /\ LET r == ProcessScores(b_scores, b_i, answer)
       IN /\ b_scores' = r.rows
          /\ IF r.raised
             THEN b_pc' = "raised" /\ UNCHANGED <<b_i, b_visited>>
             ELSE NextPlayer
    /\ UNCHANGED nonBotVars

BotNext ==
    \/ BatchStart
    \/ FetchRaises
    \/ \E answer \in Answers : FetchReturns(answer)

BotSpec == Init /\ [][BotNext]_vars

\* C25: when a batch is over, the iteration of every player has run: an
\* error at one player did not keep the batch from the players after it.
C25_EveryPlayerVisited ==
    b_pc \in {"done", "raised"} => b_visited = Players

\* C26: no stored row stems from a score whose mods contain NF.
C26_NoFailNeverStored ==
    \A r \in b_scores : \A k \in 1 .. Len(r.mods) : r.mods[k] # "NF"

\* --------------------------------------- src/storage.py: plays_in_month
\* A naive datetime, to the hour: Python and the DateTime column compare
\* two of them field by field, from the year down.
DateTime(y, m, d, h) == [year |-> y, month |-> m, day |-> d, hour |-> h]

DtLess(a, b) ==
    \/ a.year < b.year
    \/ a.year = b.year /\ a.month < b.month
    \/ a.year = b.year /\ a.month = b.month /\ a.day < b.day
    \/ a.year = b.year /\ a.month = b.month /\ a.day = b.day
          /\ a.hour < b.hour

\* The years and months plays_in_month is called with.
Years == {2024, 2025}
MonthNumbers == 1 .. 12
\* The timestamps of the stored plays: the first and a late hour of the
\* first and the last month of each year.
MonthTimestamps ==
    {DateTime(y, m, d.day, d.hour) :
        y \in Years, m \in {1, 12},
        d \in {[day |-> 1, hour |-> 0], [day |-> 28, hour |-> 23]}}
MonthPlayInputs ==
    {PlayRow(u, 1, t, [has_push |-> TRUE, push_value |-> 10]) :
        u \in Users, t \in MonthTimestamps}

\* `start = dt(year, month, 1)`.
MonthBegin(y, m) == DateTime(y, m, 1, 0)

\* A mutation of MonthEnd: the year is not advanced after December.
MonthEndSameYear(y, m) ==
    DateTime(y, IF m = 12 THEN 1 ELSE m + 1, 1, 0)

\* `end = dt(year + (1 if month == 12 else 0), 1 if month == 12 else
\* month + 1, 1)`.
MonthEnd(y, m) ==
    DateTime(y + (IF m = 12 THEN 1 ELSE 0), IF m = 12 THEN 1 ELSE m + 1, 1, 0)

\* plays_in_month(user_id, year, month): the rows of the user with
\* start <= timestamp < end.
PlaysInMonth(u, y, m) ==
    /\ st_op' = Op("plays_in_month", [user_id |-> u, year |-> y, month |-> m])
    /\ st_ret' = Ret(FALSE, 0,
                     {q \in plays : /\ q.user_id = u
                                     /\ ~DtLess(q.timestamp, MonthBegin(y, m))
                                     /\ DtLess(q.timestamp, MonthEnd(y, m))})
    /\ UNCHANGED <<plays, topstats, first_topstats>>
    /\ UNCHANGED nonStorageVars

MonthNext ==
    \/ \E p \in MonthPlayInputs : InsertPlayIfNew(p)
    \/ \E u \in Users, y \in Years, m \in MonthNumbers : PlaysInMonth(u, y, m)

MonthSpec == Init /\ [][MonthNext]_vars

\* C31: plays_in_month(user, year, month) returns exactly the stored rows
\* of that user whose timestamp lies in that calendar month of that year:
\* from the month's first instant on, and before the first instant of the
\* next month, which for December is 1 January of the next year.
C31_PlaysInMonth ==
    st_op.fn = "plays_in_month" =>
        st_ret.rows = {q \in plays : /\ q.user_id = st_op.arg.user_id
                                      /\ q.timestamp.year = st_op.arg.year
                                      /\ q.timestamp.month = st_op.arg.month}

\* A query for a December that returned the row stamped at the month's
\* first instant and a late row of the month, and left out the same user's
\* row stamped at 1 January of the next year.
C31_Witness ==
    /\ st_op.fn = "plays_in_month"
    /\ st_op.arg.month = 12
    /\ \E q, r, o \in plays :
          /\ q.user_id = st_op.arg.user_id
          /\ q.timestamp = DateTime(st_op.arg.year, 12, 1, 0)
          /\ r.user_id = st_op.arg.user_id
          /\ r.timestamp = DateTime(st_op.arg.year, 12, 28, 23)
          /\ o.user_id = st_op.arg.user_id
          /\ o.timestamp = DateTime(st_op.arg.year + 1, 1, 1, 0)
          /\ st_ret.rows = {q, r}

====
